---------------------------- MODULE Spec2Model ----------------------------
(***************************************************************************)
(* A model of src/app.py: the Roblox presence tracker.                     *)
(*                                                                         *)
(* main_tracker_loop runs, for ever, one tick: asyncio.gather of one       *)
(* execute_tracking coroutine per tracked user, then a sleep.  A           *)
(* coroutine is suspended at its awaits of external I/O only: the presence *)
(* request, the game-name request and the spreadsheet append.  The model   *)
(* has one action per resumption of a coroutine, and the steps of the      *)
(* users' coroutines interleave freely inside a tick.                      *)
(*                                                                         *)
(* Time passes in the sleep between two ticks only: the coroutines of one  *)
(* tick all read the same second.                                          *)
(*                                                                         *)
(* Python values: None is the empty tuple, a JSON number n of a raw        *)
(* presence record and a session_start timestamp t are the one-element     *)
(* tuples <<n>> and <<t>> (so that they compare with None), a dict is a    *)
(* record whose DOMAIN is its set of keys.                                 *)
(***************************************************************************)
EXTENDS Integers, Sequences, FiniteSets, TLC

\* --- bounds of the model ---
NumUsers == 2
MaxTicks == 3

\* The seconds a tick's requests take at most, where a run starts after a tick.
MaxTickSeconds == 3

\* The seconds that pass, between two ticks, while checks await the sheet.
MaxElapsed == 1

\* --- configuration (src/app.py:34-43) ---
LOGGING_INTERVAL_SECONDS == 60

USERS_TO_TRACK == 1..NumUsers

UserName(user_id) == "user" \o ToString(user_id)

None == <<>>

Some(v) == <<v>>

\* dict.get(key, default)
Get(d, key, default) == IF key \in DOMAIN d THEN d[key] ELSE default

\* --- the raw presence records the presence API returns in the polled runs ---
\* A place id known (1), or only a root place id (2), or neither: the game ids
\* 1, 2 and 0 (hidden).
PlaceIds == {None, Some(1)}

RootPlaceIds == {None, Some(2)}

UniverseIds == {Some(0)}

LastLocations == {"Bar"}

\* userPresenceType: 0=Offline, 1=Online/Website, 2=InGame, 3=InStudio; here
\* on the website, in a game, or a JSON null (a malformed record).
PresenceTypes == {Some(1), Some(2), None}

RawPresences ==
    [userPresenceType : PresenceTypes, placeId : PlaceIds,
     rootPlaceId : RootPlaceIds, universeId : UniverseIds,
     lastLocation : LastLocations]

\* What _get_game_details returns as the name: its default, or the name the
\* games API gave.
FetchedGameNames == {"Unknown Game", "Private Server", "Foo"}

VARIABLES
    user_tracking_cache,  \* the global cache: user id -> status dict
    db_store,             \* db_store['sessions']: the list of session logs
    gspread_sheet,        \* whether init_gspread opened a worksheet
    clock,                \* int(time.time()), in seconds
    loop,                 \* where main_tracker_loop is
    ticks,                \* the number of ticks started
    pc,                   \* where each user's execute_tracking is
    user_presence,        \* per coroutine: the raw record being parsed
    current_state,        \* per coroutine: the local u
    current_time,         \* per coroutine: the local current_time
    session_log,          \* per coroutine: the session_log being written
    branch,               \* per coroutine: the branch it logged
    write_failure         \* per coroutine: whether it logged a failed sheet write

vars == <<user_tracking_cache, db_store, gspread_sheet, clock, loop, ticks,
          pc, user_presence, current_state, current_time, session_log, branch,
          write_failure>>

\* --- RobloxTracker._parse_presence ---

Truthy(v) == v # None /\ v # Some(0)

\* a or b or c
FirstTruthy(a, b, c) == IF Truthy(a) THEN a ELSE IF Truthy(b) THEN b ELSE c

\* int(active_game_id or 0); the JSON numbers of this model are integers.
IntOrZero(v) == IF Truthy(v) THEN v[1] ELSE 0

\* Mutant: the candidates are tried in the order universeId, rootPlaceId, placeId.
RawGameId_UniverseFirst(raw) ==
    IntOrZero(FirstTruthy(Get(raw, "universeId", None),
                          Get(raw, "rootPlaceId", None),
                          Get(raw, "placeId", None)))

RawGameId(raw) ==
    IntOrZero(FirstTruthy(Get(raw, "placeId", None),
                          Get(raw, "rootPlaceId", None),
                          Get(raw, "universeId", None)))

\* user_presence_type > 1 raises TypeError on None.
ParseRaises(raw) == Get(raw, "userPresenceType", Some(0)) = None

RawPresenceType(raw) == Get(raw, "userPresenceType", Some(0))[1]

\* Mutant: only the presence type 2 (InGame) counts as playing.
IsPlaying_InGameOnly(raw) == RawPresenceType(raw) = 2

IsPlaying(raw) == RawPresenceType(raw) > 1

\* The parse awaits _get_game_details exactly in the third branch.
NeedsGameDetails(raw) ==
    /\ IsPlaying(raw)
    /\ RawPresenceType(raw) # 3
    /\ RawGameId(raw) # 0

\* The (is_playing, active_game_id, game_name) of a raw record; fetched is the
\* name _get_game_details returned, read only when NeedsGameDetails.
parse_presence(raw, fetched) ==
    LET is_playing == IsPlaying(raw)
        active_game_id == RawGameId(raw)
        game_name == Get(raw, "lastLocation", "N/A")
    IN  IF ~is_playing
        THEN [playing |-> FALSE, active_game_id |-> 0,
              game_name |-> "Website / Offline"]
        ELSE IF RawPresenceType(raw) = 3
        THEN [playing |-> TRUE, active_game_id |-> active_game_id,
              game_name |-> "Creating in Studio: " \o game_name]
        ELSE IF active_game_id # 0
        THEN [playing |-> TRUE, active_game_id |-> active_game_id,
              game_name |->
                  IF fetched \notin {"Unknown Game", "Private Server"}
                  THEN fetched \o " [ID: " \o ToString(active_game_id) \o "]"
                  ELSE game_name]
        ELSE [playing |-> TRUE, active_game_id |-> 0,
              game_name |-> "In Game (ID Hidden): " \o game_name]

\* The dict fetch_current_presence_data returns.
PresenceData(user_id, parsed) ==
    [user_id |-> user_id, user_name |-> UserName(user_id),
     playing |-> parsed.playing, active_game_id |-> parsed.active_game_id,
     game_name |-> parsed.game_name]

\* --- the cache ---

DefaultStatus(user_id) ==
    [user_id |-> user_id, user_name |-> UserName(user_id), playing |-> FALSE,
     active_game_id |-> 0, game_name |-> "N/A", session_start |-> None,
     session_id |-> None]

get_user_tracking_status(cache, user_id) ==
    IF user_id \in DOMAIN cache THEN cache[user_id] ELSE DefaultStatus(user_id)

\* Mutant: every tracker writes the cache slot of the first user.
update_user_tracking_status_FirstSlot(cache, user_id, status) ==
    [k \in DOMAIN cache \cup {1} |-> IF k = 1 THEN status ELSE cache[k]]

update_user_tracking_status(cache, user_id, status) ==
    [k \in DOMAIN cache \cup {user_id} |->
        IF k = user_id THEN status ELSE cache[k]]


\* --- RobloxTracker.execute_tracking: the transition of one user ---

\* Mutant: the session id without the timestamp, f"SESS_{self.user_id}".
SessionId_NoTime(user_id, t) == <<"SESS", user_id>>

\* f"SESS_{self.user_id}_{current_time}": one string per pair of integers.
SessionId(user_id, t) == <<"SESS", user_id, t>>

\* floor(log2(n)), for n >= 1.
RECURSIVE Log2(_)
Log2(n) == IF n < 2 THEN 0 ELSE 1 + Log2(n \div 2)

\* The binary exponent e of the quotient n / 60: 2^e <= n / 60 < 2^(e+1).
RECURSIVE QuotientExp(_)
QuotientExp(n) ==
    IF n >= 60 THEN Log2(n \div 60) ELSE QuotientExp(2 * n) - 1

\* 60 * m - n * 2^(52-e), where m is the 53-bit significand of the double
\* nearest to n / 60 and e its exponent: the rounding error of the division,
\* in sixtieths of a unit in the last place.  Modulo 60, 2^k is 4 * 2^((k-2) % 4)
\* for k >= 2; the remainder is never 30, so the division has no tie.
RoundingError(n) ==
    LET r == ((n % 60) * 4 * 2 ^ ((50 - QuotientExp(n)) % 4)) % 60
    IN  IF r < 30 THEN 0 - r ELSE 60 - r

\* session_duration / 60.0: the double nearest to seconds / 60, which is
\* (num / den) + (err / den) * 2^(exp - 52).
Minutes(seconds) ==
    IF seconds = 0 THEN [num |-> 0, den |-> 60, exp |-> 0, err |-> 0]
    ELSE [num |-> seconds, den |-> 60, exp |-> QuotientExp(seconds),
          err |-> RoundingError(seconds)]

\* Mutant: the first test is "not cached_tracking" alone.
Branch_StartWhenNotCached(c, u) ==
    IF ~c.playing THEN "START"
    ELSE IF c.playing /\ ~u.playing THEN "END"
    ELSE IF c.playing /\ u.playing /\ u.active_game_id # c.active_game_id
    THEN IF u.active_game_id # 0 \/ c.active_game_id # 0
         THEN "SWITCH" ELSE "CONTINUE_HIDDEN"
    ELSE IF u.playing THEN "CONTINUE" ELSE "IDLE"

\* Mutant: a change of name is a change of game.
Branch_SwitchOnName(c, u) ==
    IF ~c.playing /\ u.playing THEN "START"
    ELSE IF c.playing /\ ~u.playing THEN "END"
    ELSE IF /\ c.playing /\ u.playing
            /\ (u.active_game_id # c.active_game_id \/ u.game_name # c.game_name)
    THEN "SWITCH"
    ELSE IF u.playing THEN "CONTINUE" ELSE "IDLE"

\* Which branch of the if/elif chain a (cached, current) pair takes.
Branch(c, u) ==
    IF ~c.playing /\ u.playing THEN "START"
    ELSE IF c.playing /\ ~u.playing THEN "END"
    ELSE IF c.playing /\ u.playing /\ u.active_game_id # c.active_game_id
    THEN IF u.active_game_id # 0 \/ c.active_game_id # 0
         THEN "SWITCH" ELSE "CONTINUE_HIDDEN"
    ELSE IF u.playing THEN "CONTINUE" ELSE "IDLE"

\* The branches that evaluate c['session_start'].
ReadsSessionStart(b) == b \in {"END", "SWITCH", "CONTINUE_HIDDEN", "CONTINUE"}

\* END and SWITCH log the cached session unless its session_start is None.
LogsSession(c, b) == b \in {"END", "SWITCH"} /\ c.session_start # None

\* Mutant: duration_minutes is taken from the end time.
SessionLog_MinutesOfEnd(c, now) ==
    [user_id |-> c.user_id, user_name |-> c.user_name,
     game_id |-> c.active_game_id, game_name |-> c.game_name,
     start_time |-> c.session_start[1], end_time |-> now,
     duration_seconds |-> now - c.session_start[1],
     duration_minutes |-> Minutes(now),
     session_id |-> c.session_id]

\* Mutant: the duration is not taken from the session's start.
SessionLog_DurationFromZero(c, now) ==
    [user_id |-> c.user_id, user_name |-> c.user_name,
     game_id |-> c.active_game_id, game_name |-> c.game_name,
     start_time |-> c.session_start[1], end_time |-> now,
     duration_seconds |-> now,
     duration_minutes |-> Minutes(now),
     session_id |-> c.session_id]

\* The session_log dict of END and SWITCH.
SessionLog(c, now) ==
    [user_id |-> c.user_id, user_name |-> c.user_name,
     game_id |-> c.active_game_id, game_name |-> c.game_name,
     start_time |-> c.session_start[1], end_time |-> now,
     duration_seconds |-> now - c.session_start[1],
     duration_minutes |-> Minutes(now - c.session_start[1]),
     session_id |-> c.session_id]

\* u with u['session_start'], u['session_id'] assigned.
WithSession(u, start, sid) ==
    [k \in DOMAIN u \cup {"session_start", "session_id"} |->
        IF k = "session_start" THEN start
        ELSE IF k = "session_id" THEN sid ELSE u[k]]

\* Mutant: CONTINUE does not copy the session fields from the cached state.
NewStatus_ContinueDropsStart(c, u, b, now) ==
    IF b \in {"START", "SWITCH"}
    THEN WithSession(u, Some(now), SessionId(u.user_id, now))
    ELSE IF b \in {"END", "CONTINUE", "CONTINUE_HIDDEN"}
    THEN WithSession(u, None, None)
    ELSE u

\* Mutant: SWITCH opens the new session at the cached session_start.
NewStatus_SwitchKeepsStart(c, u, b, now) ==
    IF b = "START"
    THEN WithSession(u, Some(now), SessionId(u.user_id, now))
    ELSE IF b = "SWITCH"
    THEN WithSession(u, c.session_start, SessionId(u.user_id, now))
    ELSE IF b = "END" THEN WithSession(u, None, None)
    ELSE IF b \in {"CONTINUE", "CONTINUE_HIDDEN"}
    THEN WithSession(u, c.session_start, c.session_id)
    ELSE u

\* Mutant: SWITCH opens no session.
NewStatus_SwitchNotStamped(c, u, b, now) ==
    IF b = "START"
    THEN WithSession(u, Some(now), SessionId(u.user_id, now))
    ELSE IF b \in {"END", "SWITCH"} THEN WithSession(u, None, None)
    ELSE IF b \in {"CONTINUE", "CONTINUE_HIDDEN"}
    THEN WithSession(u, c.session_start, c.session_id)
    ELSE u

\* Mutant: SWITCH opens the new session under the cached session_id.
NewStatus_SwitchKeepsId(c, u, b, now) ==
    IF b = "START"
    THEN WithSession(u, Some(now), SessionId(u.user_id, now))
    ELSE IF b = "SWITCH" THEN WithSession(u, Some(now), c.session_id)
    ELSE IF b = "END" THEN WithSession(u, None, None)
    ELSE IF b \in {"CONTINUE", "CONTINUE_HIDDEN"}
    THEN WithSession(u, c.session_start, c.session_id)
    ELSE u

\* Mutant: START assigns the session_id and no session_start.
NewStatus_StartNotStamped(c, u, b, now) ==
    IF b = "START"
    THEN WithSession(u, None, SessionId(u.user_id, now))
    ELSE IF b = "SWITCH"
    THEN WithSession(u, Some(now), SessionId(u.user_id, now))
    ELSE IF b = "END" THEN WithSession(u, None, None)
    ELSE IF b \in {"CONTINUE", "CONTINUE_HIDDEN"}
    THEN WithSession(u, c.session_start, c.session_id)
    ELSE u

\* Mutant: CONTINUE stamps session_start anew.
NewStatus_ContinueRestamps(c, u, b, now) ==
    IF b \in {"START", "SWITCH"}
    THEN WithSession(u, Some(now), SessionId(u.user_id, now))
    ELSE IF b = "END" THEN WithSession(u, None, None)
    ELSE IF b \in {"CONTINUE", "CONTINUE_HIDDEN"}
    THEN WithSession(u, Some(now), c.session_id)
    ELSE u

\* Mutant: END clears session_start and keeps the cached session_id.
NewStatus_EndKeepsId(c, u, b, now) ==
    IF b \in {"START", "SWITCH"}
    THEN WithSession(u, Some(now), SessionId(u.user_id, now))
    ELSE IF b = "END" THEN WithSession(u, None, c.session_id)
    ELSE IF b \in {"CONTINUE", "CONTINUE_HIDDEN"}
    THEN WithSession(u, c.session_start, c.session_id)
    ELSE u

\* The dict each branch hands to update_user_tracking_status.
NewStatus(c, u, b, now) ==
    IF b \in {"START", "SWITCH"}
    THEN WithSession(u, Some(now), SessionId(u.user_id, now))
    ELSE IF b = "END" THEN WithSession(u, None, None)
    ELSE IF b \in {"CONTINUE", "CONTINUE_HIDDEN"}
    THEN WithSession(u, c.session_start, c.session_id)
    ELSE u

\* log_session_end's last statement: self._db_store['sessions'].append(...)
log_session_end(store, log) == Append(store, log)

\* --- the state machine ---

Terminal == {"done", "skipped", "raised", "cancelled"}

NoLocal == [user_id \in USERS_TO_TRACK |-> None]

Init ==
    /\ user_tracking_cache = <<>>
    /\ db_store = <<>>
    /\ gspread_sheet \in BOOLEAN
    /\ clock = 0
    /\ loop = "running"
    /\ ticks = 0
    /\ pc = [user_id \in USERS_TO_TRACK |-> "init"]
    /\ user_presence = NoLocal
    /\ current_state = NoLocal
    /\ current_time = NoLocal
    /\ session_log = NoLocal
    /\ branch = [user_id \in USERS_TO_TRACK |-> "none"]
    /\ write_failure = [user_id \in USERS_TO_TRACK |-> FALSE]

\* Coroutines run while the event loop does: also between an exception
\* reaching gather and asyncio.run cancelling what is left.
Running == loop \in {"running", "raising"}

\* Mutant: the loop starts the next tick without waiting for gather.
StartTick_NoJoin ==
    /\ loop = "running"
    /\ ticks < MaxTicks
    /\ ticks' = ticks + 1
    /\ clock' = IF ticks = 0 THEN clock ELSE clock + LOGGING_INTERVAL_SECONDS
    /\ pc' = [user_id \in USERS_TO_TRACK |-> "fetch"]
    /\ branch' = [user_id \in USERS_TO_TRACK |-> "none"]
    /\ write_failure' = [user_id \in USERS_TO_TRACK |-> FALSE]
    /\ current_state' = NoLocal
    /\ UNCHANGED <<user_tracking_cache, db_store, gspread_sheet, loop,
                   user_presence, current_time, session_log>>

\* main_tracker_loop: gather returned (or this is the first iteration); after
\* the sleep every tracker's execute_tracking is started and runs up to its
\* presence request.
StartTick ==
    /\ loop = "running"
    /\ ticks < MaxTicks
    /\ \A user_id \in USERS_TO_TRACK : pc[user_id] \in {"init", "done", "skipped"}
    /\ ticks' = ticks + 1
    /\ clock' = IF ticks = 0 THEN clock ELSE clock + LOGGING_INTERVAL_SECONDS
    /\ pc' = [user_id \in USERS_TO_TRACK |-> "fetch"]
    /\ branch' = [user_id \in USERS_TO_TRACK |-> "none"]
    /\ write_failure' = [user_id \in USERS_TO_TRACK |-> FALSE]
    /\ current_state' = NoLocal
    /\ UNCHANGED <<user_tracking_cache, db_store, gspread_sheet, loop,
                   user_presence, current_time, session_log>>

\* Mutant: a failed fetch is taken for the user being offline.
FetchFailed_WritesIdle(self) ==
    /\ UNCHANGED write_failure
    /\ Running
    /\ pc[self] = "fetch"
    /\ pc' = [pc EXCEPT ![self] = "skipped"]
    /\ branch' = [branch EXCEPT ![self] = "SKIP"]
    /\ user_tracking_cache' = update_user_tracking_status(
           user_tracking_cache, self, DefaultStatus(self))
    /\ UNCHANGED <<db_store, gspread_sheet, clock, loop, ticks, user_presence,
                   current_state, current_time, session_log>>

\* fetch_current_presence_data returns None: the request failed, or the user is
\* not in the response.  execute_tracking reads the cache and returns.
FetchFailed(self) ==
    /\ UNCHANGED write_failure
    /\ Running
    /\ pc[self] = "fetch"
    /\ pc' = [pc EXCEPT ![self] = "skipped"]
    /\ branch' = [branch EXCEPT ![self] = "SKIP"]
    /\ UNCHANGED <<user_tracking_cache, db_store, gspread_sheet, clock, loop,
                   ticks, user_presence, current_state, current_time,
                   session_log>>

\* The response holds a record of the user whose userPresenceType is null:
\* _parse_presence raises, execute_tracking raises, gather raises.
ParseRaised(self) ==
    /\ UNCHANGED write_failure
    /\ Running
    /\ pc[self] = "fetch"
    /\ \E raw \in RawPresences : ParseRaises(raw)
    /\ pc' = [pc EXCEPT ![self] = "raised"]
    /\ loop' = "raising"
    /\ UNCHANGED <<user_tracking_cache, db_store, gspread_sheet, clock, ticks,
                   user_presence, current_state, current_time, session_log,
                   branch>>

\* execute_tracking from the cache read (line 312) to its end, or to the await
\* of the spreadsheet append inside log_session_end; u is the dict
\* fetch_current_presence_data returned, now is int(time.time()).
Track(self, u, now) ==
    LET c == get_user_tracking_status(user_tracking_cache, self)
        b == Branch(c, u)
    IN  /\ current_state' = [current_state EXCEPT ![self] = u]
        /\ IF ReadsSessionStart(b) /\ "session_start" \notin DOMAIN c
           THEN \* KeyError
                /\ pc' = [pc EXCEPT ![self] = "raised"]
                /\ loop' = "raising"
                /\ UNCHANGED <<user_tracking_cache, db_store, current_time,
                               session_log, branch>>
           ELSE IF LogsSession(c, b) /\ gspread_sheet
           THEN /\ pc' = [pc EXCEPT ![self] = "append_row"]
                /\ current_time' = [current_time EXCEPT ![self] = Some(now)]
                /\ session_log' = [session_log EXCEPT ![self] = SessionLog(c, now)]
                /\ branch' = [branch EXCEPT ![self] = b]
                /\ UNCHANGED <<user_tracking_cache, db_store, loop>>
           ELSE /\ db_store' = IF LogsSession(c, b)
                               THEN log_session_end(db_store, SessionLog(c, now))
                               ELSE db_store
                /\ user_tracking_cache' = update_user_tracking_status(
                       user_tracking_cache, self, NewStatus(c, u, b, now))
                /\ pc' = [pc EXCEPT ![self] = "done"]
                /\ branch' = [branch EXCEPT ![self] =
                       IF b \in {"END", "SWITCH"} /\ ~LogsSession(c, b)
                       THEN b \o "_NO_START" ELSE b]
                /\ UNCHANGED <<current_time, session_log, loop>>

\* The response holds a well-formed record of the user.  _parse_presence runs
\* up to its await of _get_game_details; when it has none, it returns and
\* execute_tracking goes on without being suspended.
PresenceFetched(self) ==
    /\ UNCHANGED write_failure
    /\ Running
    /\ pc[self] = "fetch"
    /\ \E raw \in RawPresences :
        /\ ~ParseRaises(raw)
        /\ IF NeedsGameDetails(raw)
           THEN /\ pc' = [pc EXCEPT ![self] = "name"]
                /\ user_presence' = [user_presence EXCEPT ![self] = raw]
                /\ UNCHANGED <<user_tracking_cache, db_store, loop,
                               current_state, current_time, session_log, branch>>
           ELSE /\ Track(self,
                         PresenceData(self, parse_presence(raw, "Unknown Game")),
                         clock)
                /\ UNCHANGED user_presence
    /\ UNCHANGED <<gspread_sheet, clock, ticks>>

\* _get_game_details returns; _parse_presence and fetch_current_presence_data
\* return and execute_tracking goes on.
GameDetailsFetched(self) ==
    /\ UNCHANGED write_failure
    /\ Running
    /\ pc[self] = "name"
    /\ \E fetched \in FetchedGameNames :
        Track(self,
              PresenceData(self, parse_presence(user_presence[self], fetched)),
              clock)
    /\ user_presence' = [user_presence EXCEPT ![self] = None]
    /\ UNCHANGED <<gspread_sheet, clock, ticks>>

\* Mutant: a record whose sheet write failed is not kept in memory either.
AppendRowReturned_FailureDropsRecord(self) ==
    /\ Running
    /\ pc[self] = "append_row"
    /\ \E written \in BOOLEAN :
        /\ write_failure' = [write_failure EXCEPT ![self] = ~written]
        /\ db_store' = IF written
                       THEN log_session_end(db_store, session_log[self])
                       ELSE db_store
    /\ user_tracking_cache' = update_user_tracking_status(
           user_tracking_cache, self,
           NewStatus(get_user_tracking_status(user_tracking_cache, self),
                     current_state[self], branch[self], current_time[self][1]))
    /\ pc' = [pc EXCEPT ![self] = "done"]
    /\ current_time' = [current_time EXCEPT ![self] = None]
    /\ session_log' = [session_log EXCEPT ![self] = None]
    /\ UNCHANGED <<gspread_sheet, clock, loop, ticks, user_presence,
                   current_state, branch>>

\* Mutant: the session a SWITCH opens is stamped with the time at which the
\* sheet append returned.
AppendRowReturned_ReadsClock(self) ==
    /\ Running
    /\ pc[self] = "append_row"
    /\ \E written \in BOOLEAN :
        /\ write_failure' = [write_failure EXCEPT ![self] = ~written]
        /\ db_store' = log_session_end(db_store, session_log[self])
    /\ user_tracking_cache' = update_user_tracking_status(
           user_tracking_cache, self,
           NewStatus(get_user_tracking_status(user_tracking_cache, self),
                     current_state[self], branch[self], clock))
    /\ pc' = [pc EXCEPT ![self] = "done"]
    /\ current_time' = [current_time EXCEPT ![self] = None]
    /\ session_log' = [session_log EXCEPT ![self] = None]
    /\ UNCHANGED <<gspread_sheet, clock, loop, ticks, user_presence,
                   current_state, branch>>

\* The spreadsheet append returns or raises (the exception is caught and
\* logged): log_session_end appends to the store, execute_tracking updates the
\* cache with the dict u and the current_time it holds.
AppendRowReturned(self) ==
    /\ Running
    /\ pc[self] = "append_row"
    /\ \E written \in BOOLEAN :
        /\ write_failure' = [write_failure EXCEPT ![self] = ~written]
        /\ db_store' = log_session_end(db_store, session_log[self])
    /\ user_tracking_cache' = update_user_tracking_status(
           user_tracking_cache, self,
           NewStatus(get_user_tracking_status(user_tracking_cache, self),
                     current_state[self], branch[self], current_time[self][1]))
    /\ pc' = [pc EXCEPT ![self] = "done"]
    /\ current_time' = [current_time EXCEPT ![self] = None]
    /\ session_log' = [session_log EXCEPT ![self] = None]
    /\ UNCHANGED <<gspread_sheet, clock, loop, ticks, user_presence,
                   current_state, branch>>

\* The exception leaves gather, main_tracker_loop and main; asyncio.run cancels
\* the coroutines still suspended and the process ends.
LoopCrashed ==
    /\ UNCHANGED write_failure
    /\ loop = "raising"
    /\ loop' = "stopped"
    /\ pc' = [user_id \in USERS_TO_TRACK |->
                 IF pc[user_id] \in Terminal THEN pc[user_id] ELSE "cancelled"]
    /\ UNCHANGED <<user_tracking_cache, db_store, gspread_sheet, clock, ticks,
                   user_presence, current_state, current_time, session_log,
                   branch>>

Next ==
    \/ StartTick
    \/ LoopCrashed
    \/ \E self \in USERS_TO_TRACK :
        \/ FetchFailed(self)
        \/ ParseRaised(self)
        \/ PresenceFetched(self)
        \/ GameDetailsFetched(self)
        \/ AppendRowReturned(self)

Spec == Init /\ [][Next]_vars

\* --- a cache holding tracking entries without a session_start ---
\* The state the defensive branches of END and SWITCH are written for:
\* between two ticks, with every cache entry playing and its session_start
\* None.  From the empty cache no run reaches it.
CorruptStatuses(user_id) ==
    {[user_id |-> user_id, user_name |-> UserName(user_id), playing |-> TRUE,
      active_game_id |-> g, game_name |-> "Bar", session_start |-> None,
      session_id |-> sid] :
        g \in {0, 1}, sid \in {None, SessionId(user_id, 0)}}

InitCorrupt ==
    /\ user_tracking_cache \in
           {f \in [USERS_TO_TRACK -> UNION {CorruptStatuses(user_id) :
                                              user_id \in USERS_TO_TRACK}] :
               \A user_id \in USERS_TO_TRACK : f[user_id] \in CorruptStatuses(user_id)}
    /\ db_store = <<>>
    /\ gspread_sheet \in BOOLEAN
    /\ clock = LOGGING_INTERVAL_SECONDS
    /\ loop = "running"
    /\ ticks = 1
    /\ pc = [user_id \in USERS_TO_TRACK |-> "done"]
    /\ user_presence = NoLocal
    /\ current_state = NoLocal
    /\ current_time = NoLocal
    /\ session_log = NoLocal
    /\ branch = [user_id \in USERS_TO_TRACK |-> "none"]
    /\ write_failure = [user_id \in USERS_TO_TRACK |-> FALSE]

SpecCorrupt == InitCorrupt /\ [][Next]_vars


\* --- a cache holding open sessions, one tick into the run ---
\* The state between the first tick and the second, when the first tick found
\* every user in a game whose id is hidden, at the location "Baz".  The users'
\* checks read the time when their presence request returned, at some second
\* of the MaxTickSeconds the tick took.
OpenStatuses(user_id) ==
    {[user_id |-> user_id, user_name |-> UserName(user_id), playing |-> TRUE,
      active_game_id |-> 0, game_name |-> "In Game (ID Hidden): Baz",
      session_start |-> Some(t), session_id |-> SessionId(user_id, t)] :
        t \in 0..MaxTickSeconds}

InitOpen ==
    /\ user_tracking_cache \in
           {f \in [USERS_TO_TRACK -> UNION {OpenStatuses(user_id) :
                                              user_id \in USERS_TO_TRACK}] :
               \A user_id \in USERS_TO_TRACK : f[user_id] \in OpenStatuses(user_id)}
    /\ db_store = <<>>
    /\ gspread_sheet \in BOOLEAN
    /\ clock = MaxTickSeconds
    /\ loop = "running"
    /\ ticks = 1
    /\ pc = [user_id \in USERS_TO_TRACK |-> "done"]
    /\ user_presence = NoLocal
    /\ current_state = NoLocal
    /\ current_time = NoLocal
    /\ session_log = NoLocal
    /\ branch = [user_id \in USERS_TO_TRACK |-> "none"]
    /\ write_failure = [user_id \in USERS_TO_TRACK |-> FALSE]

SpecOpen == InitOpen /\ [][Next]_vars

\* --- _parse_presence on its own, over the records the API can send ---
\* Every field null, zero or a number of its own; the presence types 0 to 3 and
\* null; an empty or a real lastLocation; and the records that lack the
\* lastLocation or the userPresenceType field.
AnyPresenceTypes == {Some(0), Some(1), Some(2), Some(3), None}

AnyPlaceIds == {None, Some(0), Some(1)}

AnyRootPlaceIds == {None, Some(0), Some(2)}

AnyUniverseIds == {None, Some(0), Some(3)}

AnyLastLocations == {"", "Bar"}

Without(raw, key) == [k \in DOMAIN raw \ {key} |-> raw[k]]

AnyRawPresences ==
    LET full == [userPresenceType : AnyPresenceTypes, placeId : AnyPlaceIds,
                 rootPlaceId : AnyRootPlaceIds, universeId : AnyUniverseIds,
                 lastLocation : AnyLastLocations]
    IN  full \cup {Without(raw, "lastLocation") : raw \in full}
             \cup {Without(raw, "userPresenceType") : raw \in full}

\* The first tracker is about to parse the record of its user.
InitParse ==
    /\ user_tracking_cache = <<>>
    /\ db_store = <<>>
    /\ gspread_sheet = FALSE
    /\ clock = 0
    /\ loop = "running"
    /\ ticks = 1
    /\ pc = [user_id \in USERS_TO_TRACK |->
                IF user_id = 1 THEN "parse" ELSE "fetch"]
    /\ \E raw \in AnyRawPresences :
          user_presence = [user_id \in USERS_TO_TRACK |->
                              IF user_id = 1 THEN raw ELSE None]
    /\ current_state = NoLocal
    /\ current_time = NoLocal
    /\ session_log = NoLocal
    /\ branch = [user_id \in USERS_TO_TRACK |-> "none"]
    /\ write_failure = [user_id \in USERS_TO_TRACK |-> FALSE]

\* user_presence_type > 1 raises.
ParseTypeError(self) ==
    /\ UNCHANGED write_failure
    /\ pc[self] = "parse"
    /\ ParseRaises(user_presence[self])
    /\ pc' = [pc EXCEPT ![self] = "raised"]
    /\ UNCHANGED <<user_tracking_cache, db_store, gspread_sheet, clock, loop,
                   ticks, user_presence, current_state, current_time,
                   session_log, branch>>

\* _parse_presence up to its await of _get_game_details, or to its return when
\* it has none; fetch_current_presence_data returns the dict of its result.
ParseStarted(self) ==
    /\ UNCHANGED write_failure
    /\ pc[self] = "parse"
    /\ ~ParseRaises(user_presence[self])
    /\ IF NeedsGameDetails(user_presence[self])
       THEN /\ pc' = [pc EXCEPT ![self] = "parse_name"]
            /\ UNCHANGED current_state
       ELSE /\ pc' = [pc EXCEPT ![self] = "parsed"]
            /\ current_state' = [current_state EXCEPT ![self] =
                   PresenceData(self, parse_presence(user_presence[self],
                                                     "Unknown Game"))]
    /\ UNCHANGED <<user_tracking_cache, db_store, gspread_sheet, clock, loop,
                   ticks, user_presence, current_time, session_log, branch>>

\* _get_game_details returns, then _parse_presence.
ParseNamed(self) ==
    /\ UNCHANGED write_failure
    /\ pc[self] = "parse_name"
    /\ \E fetched \in FetchedGameNames :
          current_state' = [current_state EXCEPT ![self] =
              PresenceData(self, parse_presence(user_presence[self], fetched))]
    /\ pc' = [pc EXCEPT ![self] = "parsed"]
    /\ UNCHANGED <<user_tracking_cache, db_store, gspread_sheet, clock, loop,
                   ticks, user_presence, current_time, session_log, branch>>

NextParse ==
    \E self \in USERS_TO_TRACK :
        \/ ParseTypeError(self)
        \/ ParseStarted(self)
        \/ ParseNamed(self)

SpecParse == InitParse /\ [][NextParse]_vars

\* --- time passing while a check awaits the sheet append ---
\* The runs with a worksheet, from the end of a first tick that found every
\* user in a game whose id is hidden, in which the clock also advances while a
\* check is suspended in log_session_end: what the check reads after the await
\* is its local current_time, not the clock.
InitElapse ==
    /\ user_tracking_cache =
           [user_id \in USERS_TO_TRACK |->
               WithSession(PresenceData(user_id,
                               [playing |-> TRUE, active_game_id |-> 0,
                                game_name |-> "In Game (ID Hidden): Bar"]),
                           Some(0), SessionId(user_id, 0))]
    /\ db_store = <<>>
    /\ gspread_sheet = TRUE
    /\ clock = 0
    /\ loop = "running"
    /\ ticks = 1
    /\ pc = [user_id \in USERS_TO_TRACK |-> "done"]
    /\ user_presence = NoLocal
    /\ current_state = NoLocal
    /\ current_time = NoLocal
    /\ session_log = NoLocal
    /\ branch = [user_id \in USERS_TO_TRACK |-> "START"]
    /\ write_failure = [user_id \in USERS_TO_TRACK |-> FALSE]

Elapse ==
    /\ Running
    /\ \E self \in USERS_TO_TRACK : pc[self] = "append_row"
    /\ clock % LOGGING_INTERVAL_SECONDS < MaxElapsed
    /\ clock' = clock + 1
    /\ UNCHANGED <<user_tracking_cache, db_store, gspread_sheet, loop, ticks,
                   pc, user_presence, current_state, current_time, session_log,
                   branch, write_failure>>

NextElapse == Next \/ Elapse

SpecElapse == InitElapse /\ [][NextElapse]_vars

\* --- the claims ---

\* The cached state a check of the user reads.
Cached(user_id) == get_user_tracking_status(user_tracking_cache, user_id)

\* The user's cache entry after the step.
NewEntry(user_id) == user_tracking_cache'[user_id]

\* entry.get(key) is None: the key is missing or holds None.
IsNull(entry, key) == Get(entry, key, None) = None

\* The step in which the user's execute_tracking reads the cache and takes its
\* branch; the snapshot it compares with the cache is current_state'.
Tracks(user_id) ==
    /\ pc[user_id] \in {"fetch", "name"}
    /\ current_state'[user_id] # None

\* The step in which the user's execute_tracking is suspended in
\* log_session_end, and the one that resumes it.
Suspends(user_id) == pc[user_id] # "append_row" /\ pc'[user_id] = "append_row"

Resumes(user_id) == pc[user_id] = "append_row" /\ pc'[user_id] # "append_row"

\* The step that ends the user's check of this tick normally.
Finishes(user_id) == pc[user_id] # "done" /\ pc'[user_id] = "done"

\* The current_time of the check that finishes in this step.
Now(user_id) ==
    IF pc[user_id] = "append_row" THEN current_time[user_id][1] ELSE clock

\* The indices of the store's records with a given session_id.
RecordsOf(store, sid) == {i \in 1..Len(store) : store[i].session_id = sid}

\* C1: no session_id is on two records of the store; the store only grows, one
\* record at a time, and a record carries the session_id of the open session
\* in its user's cache; a session_id enters a cache entry only in a START or
\* SWITCH of that user, as SESS_<user>_<now>; and when an open session leaves
\* the cache, the store holds exactly one record with its session_id.
C1_OneRecordPerSession ==
    /\ [](\A i, j \in 1..Len(db_store) :
            i # j => db_store[i].session_id # db_store[j].session_id)
    /\ [][/\ \/ db_store' = db_store
             \/ /\ Len(db_store') = Len(db_store) + 1
                /\ SubSeq(db_store', 1, Len(db_store)) = db_store
                /\ LET r == db_store'[Len(db_store')]
                   IN  /\ r.session_id # None
                       /\ r.session_id = Cached(r.user_id).session_id
                       /\ Finishes(r.user_id)
          /\ \A u \in USERS_TO_TRACK :
                /\ (/\ u \in DOMAIN user_tracking_cache'
                    /\ ~IsNull(NewEntry(u), "session_id")
                    /\ NewEntry(u).session_id # Get(Cached(u), "session_id", None))
                   => /\ branch'[u] \in {"START", "SWITCH"}
                      /\ Finishes(u)
                      /\ NewEntry(u).session_id = <<"SESS", u, Now(u)>>
                /\ (/\ ~IsNull(Cached(u), "session_id")
                    /\ Get(NewEntry(u), "session_id", None) # Cached(u).session_id)
                   => Cardinality(RecordsOf(db_store', Cached(u).session_id)) = 1
       ]_vars

\* Two sessions of one user were opened and closed.
C1_Witness ==
    \E i, j \in 1..Len(db_store) :
        /\ i < j
        /\ db_store[i].user_id = db_store[j].user_id
        /\ db_store[i].session_id # db_store[j].session_id

\* C2: the step in which a user's fetch returns no data changes no cache entry
\* and appends no record; and every record's start_time is the time at which
\* its session was opened (the one in its session_id), however many ticks of
\* its user were skipped while the session was open.
C2_SkipKeepsCache ==
    /\ [][\A u \in USERS_TO_TRACK :
            (pc[u] # "skipped" /\ pc'[u] = "skipped")
            => UNCHANGED <<user_tracking_cache, db_store>>]_vars
    /\ [](\A i \in 1..Len(db_store) :
            db_store[i].session_id =
                <<"SESS", db_store[i].user_id, db_store[i].start_time>>)

\* A user's tick was skipped while a session opened in the first tick is open.
C2_Witness ==
    \E u \in USERS_TO_TRACK :
        /\ pc[u] = "skipped"
        /\ u \in DOMAIN user_tracking_cache
        /\ user_tracking_cache[u].playing
        /\ user_tracking_cache[u].session_start = Some(0)
        /\ user_tracking_cache[u].session_id = <<"SESS", u, 0>>

\* C3, as the spec states it: a cache entry has a session_start exactly when it
\* is playing with a non-zero game id.
C3_StartIffIdentified ==
    \A u \in DOMAIN user_tracking_cache :
        ~IsNull(user_tracking_cache[u], "session_start")
        <=> (user_tracking_cache[u].playing
             /\ user_tracking_cache[u].active_game_id # 0)

\* C3, amended: a cache entry has a session_start exactly when it is playing,
\* whatever its game id.
C3_StartIffPlaying ==
    \A u \in DOMAIN user_tracking_cache :
        ~IsNull(user_tracking_cache[u], "session_start")
        <=> user_tracking_cache[u].playing

\* A session is open on a game whose id is hidden.
C3_Witness ==
    \E u \in DOMAIN user_tracking_cache :
        /\ user_tracking_cache[u].playing
        /\ user_tracking_cache[u].active_game_id = 0
        /\ user_tracking_cache[u].session_start # None

\* C4: when a user's check has raised, the polling loop has not stopped and no
\* other user's check was cancelled.
C4_FailuresContained ==
    (\E u \in USERS_TO_TRACK : pc[u] = "raised")
    => /\ loop # "stopped"
       /\ \A v \in USERS_TO_TRACK : pc[v] # "cancelled"

\* The snapshot the check that acts in this step compares with the cache.
Cur(user_id) == current_state'[user_id]

\* The step appends exactly one record, which closes the user's cached session
\* at the current_time of the check.
ClosesCachedSession(user_id) ==
    /\ Len(db_store') = Len(db_store) + 1
    /\ SubSeq(db_store', 1, Len(db_store)) = db_store
    /\ LET r == db_store'[Len(db_store')]
           c == Cached(user_id)
       IN  /\ r.user_id = user_id
           /\ r.session_id = c.session_id
           /\ r.game_id = c.active_game_id
           /\ r.game_name = c.game_name
           /\ r.start_time = c.session_start[1]
           /\ r.end_time = Now(user_id)

\* A step of the user's check other than its last one writes neither the cache
\* nor the store.
OnlyFinishWrites(user_id) ==
    (pc'[user_id] # pc[user_id] /\ ~Finishes(user_id))
    => UNCHANGED <<user_tracking_cache, db_store>>

\* C5: a check that finds the cache playing with a session_start, the snapshot
\* playing and the two game ids different appends, when it finishes, exactly one
\* record, which closes the cached session, and caches the snapshot with
\* session_start = now and a session_id other than the one closed; its earlier
\* steps write nothing.
C5_Switch ==
    [][\A u \in USERS_TO_TRACK :
          /\ OnlyFinishWrites(u)
          /\ (/\ Finishes(u)
              /\ Cached(u).playing
              /\ Cached(u).session_start # None
              /\ Cur(u).playing
              /\ Cur(u).active_game_id # Cached(u).active_game_id)
             => /\ ClosesCachedSession(u)
                /\ NewEntry(u).playing
                /\ NewEntry(u).active_game_id = Cur(u).active_game_id
                /\ NewEntry(u).game_name = Cur(u).game_name
                /\ NewEntry(u).session_start = Some(Now(u))
                /\ NewEntry(u).session_id # None
                /\ NewEntry(u).session_id # Cached(u).session_id
      ]_vars

\* A SWITCH has closed a session on one game and opened one on another.
C5_Witness ==
    \E u \in USERS_TO_TRACK :
        /\ pc[u] = "done"
        /\ branch[u] = "SWITCH"
        /\ Len(db_store) > 0
        /\ LET r == db_store[Len(db_store)]
           IN  /\ r.user_id = u
               /\ r.end_time = clock
               /\ r.game_id # user_tracking_cache[u].active_game_id
               /\ r.session_id # user_tracking_cache[u].session_id
               /\ user_tracking_cache[u].session_start = Some(clock)

\* C6: a check that finds the cache playing with a session_start and the
\* snapshot not playing appends, when it finishes, exactly one record, which
\* closes the cached session with duration = now - session_start, and caches an
\* idle entry without session_start and session_id; its earlier steps write
\* nothing.
C6_End ==
    [][\A u \in USERS_TO_TRACK :
          /\ OnlyFinishWrites(u)
          /\ (/\ Finishes(u)
              /\ Cached(u).playing
              /\ Cached(u).session_start # None
              /\ ~Cur(u).playing)
             => /\ ClosesCachedSession(u)
                /\ db_store'[Len(db_store')].duration_seconds =
                       Now(u) - Cached(u).session_start[1]
                /\ ~NewEntry(u).playing
                /\ IsNull(NewEntry(u), "session_start")
                /\ IsNull(NewEntry(u), "session_id")
      ]_vars

\* An END has closed a session that was open for two ticks.
C6_Witness ==
    \E u \in USERS_TO_TRACK :
        /\ pc[u] = "done"
        /\ branch[u] = "END"
        /\ ~user_tracking_cache[u].playing
        /\ user_tracking_cache[u].session_start = None
        /\ Len(db_store) > 0
        /\ LET r == db_store[Len(db_store)]
           IN  /\ r.user_id = u
               /\ r.end_time = clock
               /\ r.duration_seconds = 2 * LOGGING_INTERVAL_SECONDS

\* C7: a check that finds the cache not playing (or no entry) and the snapshot
\* playing finishes in the same step, appends no record and caches the
\* snapshot's game id and name with session_start = now and a session_id.
C7_Start ==
    [][\A u \in USERS_TO_TRACK :
          (Tracks(u) /\ ~Cached(u).playing /\ Cur(u).playing)
          => /\ Finishes(u)
             /\ db_store' = db_store
             /\ NewEntry(u).playing
             /\ NewEntry(u).active_game_id = Cur(u).active_game_id
             /\ NewEntry(u).game_name = Cur(u).game_name
             /\ NewEntry(u).session_start = Some(clock)
             /\ NewEntry(u).session_id # None
      ]_vars

\* A START in the first tick, of a user with no cache entry, opened the session
\* that is still cached, and a START in the third tick opened another user's.
C7_Witness ==
    \E u, v \in DOMAIN user_tracking_cache :
        /\ user_tracking_cache[u].playing
        /\ user_tracking_cache[u].session_start = Some(0)
        /\ pc[v] = "done"
        /\ branch[v] = "START"
        /\ user_tracking_cache[v].playing
        /\ user_tracking_cache[v].session_start =
               Some(2 * LOGGING_INTERVAL_SECONDS)
        /\ db_store = <<>>

\* C8: a check that finds the cache and the snapshot playing with the same game
\* id finishes in the same step, appends no record and caches the snapshot's
\* name with the cached session_start and session_id.
C8_Continue ==
    [][\A u \in USERS_TO_TRACK :
          (/\ Tracks(u)
           /\ Cached(u).playing
           /\ Cur(u).playing
           /\ Cur(u).active_game_id = Cached(u).active_game_id)
          => /\ Finishes(u)
             /\ db_store' = db_store
             /\ NewEntry(u).playing
             /\ NewEntry(u).session_start = Cached(u).session_start
             /\ NewEntry(u).session_id = Cached(u).session_id
             /\ NewEntry(u).game_name = Cur(u).game_name
      ]_vars

\* Two consecutive CONTINUEs kept the session of the first tick, and the last
\* one replaced the name.
C8_Witness ==
    \E u \in USERS_TO_TRACK :
        /\ pc[u] = "done"
        /\ branch[u] = "CONTINUE"
        /\ clock = 2 * LOGGING_INTERVAL_SECONDS
        /\ user_tracking_cache[u].session_start = Some(0)
        /\ user_tracking_cache[u].session_id = <<"SESS", u, 0>>
        /\ user_tracking_cache[u].game_name = "Foo [ID: 1]"
        /\ db_store = <<>>

\* C9: a check that finds neither the cache nor the snapshot playing finishes
\* in the same step, appends no record and caches an entry that holds no
\* session_start and no session_id (the snapshot itself, which has neither
\* key).
C9_Idle ==
    [][\A u \in USERS_TO_TRACK :
          (Tracks(u) /\ ~Cached(u).playing /\ ~Cur(u).playing)
          => /\ Finishes(u)
             /\ db_store' = db_store
             /\ ~NewEntry(u).playing
             /\ IsNull(NewEntry(u), "session_start")
             /\ IsNull(NewEntry(u), "session_id")
      ]_vars

\* An IDLE tick of a user whose session an END closed before.
C9_Witness ==
    \E u \in USERS_TO_TRACK :
        /\ pc[u] = "done"
        /\ branch[u] = "IDLE"
        /\ ~user_tracking_cache[u].playing
        /\ IsNull(user_tracking_cache[u], "session_start")
        /\ \E i \in 1..Len(db_store) : db_store[i].user_id = u

\* C10: a check that finds the cache playing with session_start None and the
\* snapshot not playing finishes in the same step without raising, appends no
\* record and caches an idle entry with no session_start and no session_id.
C10_EndWithoutStart ==
    [][\A u \in USERS_TO_TRACK :
          (/\ Tracks(u)
           /\ Cached(u).playing
           /\ Cached(u).session_start = None
           /\ ~Cur(u).playing)
          => /\ Finishes(u)
             /\ loop' = loop
             /\ db_store' = db_store
             /\ ~NewEntry(u).playing
             /\ IsNull(NewEntry(u), "session_start")
             /\ IsNull(NewEntry(u), "session_id")
      ]_vars

\* An END took the "No session_start found" branch on an entry that held a
\* session_id.
C10_Witness ==
    \E u \in USERS_TO_TRACK :
        /\ pc[u] = "done"
        /\ branch[u] = "END_NO_START"
        /\ ~user_tracking_cache[u].playing
        /\ user_tracking_cache[u].session_id = None
        /\ db_store = <<>>

C12_HiddenContinue ==
    [][\A u \in USERS_TO_TRACK :
          (/\ Tracks(u)
           /\ Cached(u).playing
           /\ Cur(u).playing
           /\ Cached(u).active_game_id = 0
           /\ Cur(u).active_game_id = 0)
          => /\ Finishes(u)
             /\ branch'[u] \in {"CONTINUE", "CONTINUE_HIDDEN"}
             /\ db_store' = db_store
             /\ NewEntry(u).playing
             /\ NewEntry(u).active_game_id = 0
             /\ NewEntry(u).session_start = Cached(u).session_start
             /\ NewEntry(u).session_id = Cached(u).session_id
      ]_vars

\* A CONTINUE kept the session opened at the location "Baz" for a user now at
\* the location "Bar", both with a hidden game id.
C12_Witness ==
    \E u \in USERS_TO_TRACK :
        /\ pc[u] = "done"
        /\ branch[u] = "CONTINUE"
        /\ user_tracking_cache[u] \notin OpenStatuses(u)
        /\ user_tracking_cache[u].active_game_id = 0
        /\ user_tracking_cache[u].game_name = "In Game (ID Hidden): Bar"
        /\ \E t \in 0..MaxTickSeconds :
              /\ user_tracking_cache[u].session_start = Some(t)
              /\ user_tracking_cache[u].session_id = <<"SESS", u, t>>
        /\ \A i \in 1..Len(db_store) : db_store[i].user_id # u

\* C13: of two records of one user on the store, the one appended later has
\* the strictly greater start_time.
C13_StartsIncrease ==
    \A i, j \in 1..Len(db_store) :
        (i < j /\ db_store[i].user_id = db_store[j].user_id)
        => db_store[i].start_time < db_store[j].start_time

\* Two records of one user are on the store, around a record of another user.
C13_Witness ==
    \E i, k, j \in 1..Len(db_store) :
        /\ i < k /\ k < j
        /\ db_store[i].user_id = db_store[j].user_id
        /\ db_store[k].user_id # db_store[i].user_id
        /\ db_store[j].start_time = db_store[i].end_time

\* The record a finished parse was given, and what it returned.
Parsed(user_id) == pc[user_id] = "parsed"

\* The presence type indicates active participation: InGame or InStudio.
ActiveType(raw) ==
    /\ "userPresenceType" \in DOMAIN raw
    /\ raw.userPresenceType \in {Some(2), Some(3)}

\* A candidate identifier of the record resolves: it is there, not null, not 0.
Resolves(raw, key) == key \in DOMAIN raw /\ raw[key] # None /\ raw[key] # Some(0)

\* The free-text location is missing, empty or the placeholder.
GenericLocation(raw) ==
    "lastLocation" \notin DOMAIN raw \/ raw.lastLocation \in {"", "N/A"}

\* The first candidate identifier that resolves, in the order placeId,
\* rootPlaceId, universeId, and 0 when none does.
FirstResolved(raw) ==
    IF Resolves(raw, "placeId") THEN raw.placeId[1]
    ELSE IF Resolves(raw, "rootPlaceId") THEN raw.rootPlaceId[1]
    ELSE IF Resolves(raw, "universeId") THEN raw.universeId[1]
    ELSE 0

\* C14, as the spec states it: a parsed record is playing only if its presence
\* type is active and one of its identifiers resolves or its location is not
\* generic.
C14_PlayingNeedsActivity ==
    \A u \in USERS_TO_TRACK :
        (Parsed(u) /\ current_state[u].playing)
        => /\ ActiveType(user_presence[u])
           /\ \/ \E key \in {"placeId", "rootPlaceId", "universeId"} :
                    Resolves(user_presence[u], key)
              \/ ~GenericLocation(user_presence[u])

\* C14, amended: a parsed record is playing exactly when its presence type is
\* active; with no identifier that resolves it is playing with game id 0 and
\* the name "In Game (ID Hidden): " followed by its location.
C14_PlayingIffActiveType ==
    \A u \in USERS_TO_TRACK :
        Parsed(u)
        => /\ current_state[u].playing <=> ActiveType(user_presence[u])
           /\ (/\ Get(user_presence[u], "userPresenceType", None) = Some(2)
               /\ FirstResolved(user_presence[u]) = 0)
              => /\ current_state[u].playing
                 /\ current_state[u].active_game_id = 0
                 /\ current_state[u].game_name =
                        "In Game (ID Hidden): "
                            \o Get(user_presence[u], "lastLocation", "N/A")

\* A record in a game, with no identifier and an empty location, was parsed as
\* playing.
C14_Witness ==
    \E u \in USERS_TO_TRACK :
        /\ Parsed(u)
        /\ user_presence[u] =
               [userPresenceType |-> Some(2), placeId |-> None,
                rootPlaceId |-> None, universeId |-> None, lastLocation |-> ""]
        /\ current_state[u].playing
        /\ current_state[u].game_name = "In Game (ID Hidden): "

\* C15, as the spec states it: the game id of a parsed record is the first of
\* its candidate identifiers that resolves, and 0 when none does.
C15_FirstResolvedId ==
    \A u \in USERS_TO_TRACK :
        Parsed(u) => current_state[u].active_game_id = FirstResolved(user_presence[u])

\* C15, amended: the game id of a record parsed as playing is the first of its
\* candidate identifiers that resolves, and 0 when none does; the game id of a
\* record parsed as not playing is 0.
C15_FirstResolvedIdWhenPlaying ==
    \A u \in USERS_TO_TRACK :
        Parsed(u)
        => current_state[u].active_game_id =
               IF current_state[u].playing
               THEN FirstResolved(user_presence[u]) ELSE 0

\* A playing record whose placeId is 0 and whose rootPlaceId is null got its
\* universeId.
C15_Witness ==
    \E u \in USERS_TO_TRACK :
        /\ Parsed(u)
        /\ user_presence[u].placeId = Some(0)
        /\ user_presence[u].rootPlaceId = None
        /\ user_presence[u].universeId = Some(3)
        /\ current_state[u].playing
        /\ current_state[u].active_game_id = 3

\* C16: the step in which a user's sheet append returns or raises (and no
\* other step logs a failed write) ends the user's check: it appends the
\* session_log the check had built from the cached session, caches what the
\* END or SWITCH caches without a sheet, stops nothing, and leaves every other
\* user's check and cache entry as they were.
C16_SheetFailureContained ==
    [][\A u \in USERS_TO_TRACK :
          (\/ Resumes(u) /\ pc'[u] # "cancelled"
           \/ write_failure'[u] /\ ~write_failure[u])
          => /\ Resumes(u)
             /\ Finishes(u)
             /\ loop' = loop
             /\ session_log[u] = SessionLog(Cached(u), Now(u))
             /\ db_store' = Append(db_store, session_log[u])
             /\ NewEntry(u) =
                    NewStatus(Cached(u), current_state[u], branch[u], Now(u))
             /\ \A v \in USERS_TO_TRACK \ {u} :
                   /\ pc'[v] = pc[v]
                   /\ v \in DOMAIN user_tracking_cache
                      => user_tracking_cache'[v] = user_tracking_cache[v]
                   /\ v \in DOMAIN user_tracking_cache'
                      => v \in DOMAIN user_tracking_cache
      ]_vars

\* The sheet write of a user's END failed: its record is on the store and its
\* cache entry is idle; another user's check then wrote its own record.
C16_Witness ==
    \E u, v \in USERS_TO_TRACK :
        /\ u # v
        /\ pc[u] = "done" /\ branch[u] = "END" /\ write_failure[u]
        /\ ~user_tracking_cache[u].playing
        /\ pc[v] = "done" /\ branch[v] \in {"END", "SWITCH"} /\ ~write_failure[v]
        /\ \E i, j \in 1..Len(db_store) :
              /\ i < j
              /\ db_store[i].user_id = u /\ db_store[i].end_time = clock
              /\ db_store[j].user_id = v /\ db_store[j].end_time = clock

\* duration_minutes * 60 in double precision, for d the double nearest to
\* d.num / 60: the integer d.num plus ulps units in the last place.  The exact
\* product is d.num + (d.err / 2^sh) units, sh the difference of the exponents
\* of d.num and of the quotient (one less just below a power of two); it is
\* rounded to the nearest double, a tie to the even significand.
Times60(d) ==
    IF d.num = 0 THEN [int |-> 0, ulps |-> 0]
    ELSE LET f == Log2(d.num)
             below == d.err < 0 /\ d.num = 2 ^ f
             q == 2 ^ (IF below THEN f - d.exp - 1 ELSE f - d.exp)
             a == IF d.err < 0 THEN 0 - d.err ELSE d.err
             k == IF 2 * (a % q) > q THEN (a \div q) + 1
                  ELSE IF 2 * (a % q) = q THEN (a \div q) + ((a \div q) % 2)
                  ELSE a \div q
         IN  [int |-> d.num, ulps |-> IF d.err < 0 THEN 0 - k ELSE k]

\* The record the step appends, if it appends one.
Appends == Len(db_store') = Len(db_store) + 1

Appended == db_store'[Len(db_store')]

\* C17, as the spec states it: on every record of the store, end_time -
\* start_time = duration_seconds, and duration_minutes * 60 is exactly
\* duration_seconds.
C17_DurationExact ==
    \A i \in 1..Len(db_store) :
        /\ db_store[i].end_time - db_store[i].start_time =
               db_store[i].duration_seconds
        /\ Times60(db_store[i].duration_minutes) =
               [int |-> db_store[i].duration_seconds, ulps |-> 0]

\* C17, amended: on every record of the store, end_time - start_time =
\* duration_seconds, duration_minutes is the double nearest to
\* duration_seconds / 60, and duration_minutes * 60 is duration_seconds or one
\* of the two doubles next to it; an appended record has the session_start of
\* its user's cache entry as start_time and the time of the check as end_time.
C17_DurationWithinTolerance ==
    /\ [](\A i \in 1..Len(db_store) :
            LET r == db_store[i]
                p == Times60(r.duration_minutes)
            IN  /\ r.end_time - r.start_time = r.duration_seconds
                /\ r.duration_minutes.num = r.duration_seconds
                /\ r.duration_minutes.den = 60
                /\ r.duration_minutes.err \in -29..29
                /\ p.int = r.duration_seconds
                /\ p.ulps \in {-1, 0, 1})
    /\ [][Appends =>
            /\ Appended.start_time = Cached(Appended.user_id).session_start[1]
            /\ Appended.end_time = Now(Appended.user_id)
            /\ Finishes(Appended.user_id)]_vars

\* A record of 62 seconds is on the store: its duration_minutes * 60 is the
\* double above 62.
C17_Witness ==
    \E i \in 1..Len(db_store) :
        /\ db_store[i].duration_seconds = LOGGING_INTERVAL_SECONDS + 2
        /\ Times60(db_store[i].duration_minutes).ulps = 1

\* A user's cache slot: its entry, or None while it has none.
Slot(cache, user_id) == IF user_id \in DOMAIN cache THEN cache[user_id] ELSE None

\* The user's check has started and not ended.
InProgress(user_id) == pc[user_id] \in {"fetch", "name", "append_row"}

\* C18: a tick starts only when no check is in progress, every user's check of
\* the tick before having returned; and while a user's check is suspended
\* between its read of the cache and its write, no step but its own resumption
\* writes the user's cache entry, so that the session_log it holds is the one
\* of the cached session.
C18_OneCheckPerUser ==
    /\ [][/\ ticks' # ticks
             => /\ \A u \in USERS_TO_TRACK : ~InProgress(u)
                /\ \A u \in USERS_TO_TRACK :
                      pc[u] \in {"init", "done", "skipped"} /\ pc'[u] = "fetch"
          /\ \A u \in USERS_TO_TRACK :
                /\ (~InProgress(u) /\ InProgress(u)') => ticks' = ticks + 1
                /\ (pc[u] = "append_row" /\ ~Resumes(u))
                   => Slot(user_tracking_cache', u) = Slot(user_tracking_cache, u)
       ]_vars
    /\ [](\A u \in USERS_TO_TRACK :
            pc[u] = "append_row"
            => session_log[u] = SessionLog(Cached(u), current_time[u][1]))

\* In the third tick a check is suspended in its sheet append, between its
\* read of the cache and its write, after another user's check has written.
C18_Witness ==
    \E u, v \in USERS_TO_TRACK :
        /\ ticks = MaxTicks
        /\ pc[u] = "append_row"
        /\ user_tracking_cache[u].playing
        /\ pc[v] = "done"
        /\ branch[v] = "SWITCH"
        /\ user_tracking_cache[v].session_start = Some(clock)

\* C19: a step that changes a user's cache slot is the last step of that
\* user's check, changes no other slot and no other check, and caches what the
\* transition makes of the user's own cached entry, snapshot and time; a step
\* that appends a record is the last step of the check of the record's user
\* and appends the log of that user's cached session.
C19_ChecksIndependent ==
    [][/\ \A u \in USERS_TO_TRACK :
             Slot(user_tracking_cache', u) # Slot(user_tracking_cache, u)
             => /\ Finishes(u)
                /\ Slot(user_tracking_cache', u) =
                       NewStatus(Cached(u), Cur(u),
                                 Branch(Cached(u), Cur(u)), Now(u))
                /\ \A v \in USERS_TO_TRACK \ {u} :
                      /\ Slot(user_tracking_cache', v) =
                             Slot(user_tracking_cache, v)
                      /\ pc'[v] = pc[v]
                      /\ current_state'[v] = current_state[v]
       /\ db_store' # db_store
          => /\ Appends
             /\ SubSeq(db_store', 1, Len(db_store)) = db_store
             /\ Finishes(Appended.user_id)
             /\ Appended = SessionLog(Cached(Appended.user_id),
                                      Now(Appended.user_id))
      ]_vars

\* Both users' checks went through a sheet append in one tick, one closing a
\* session with an END and one with a SWITCH.
C19_Witness ==
    \E u, v \in USERS_TO_TRACK :
        /\ gspread_sheet
        /\ pc[u] = "done" /\ branch[u] = "SWITCH"
        /\ pc[v] = "done" /\ branch[v] = "END"
        /\ Len(db_store) >= 2
        /\ db_store[Len(db_store)].user_id = u
        /\ db_store[Len(db_store) - 1].user_id = v
        /\ db_store[Len(db_store)].end_time = clock
        /\ db_store[Len(db_store) - 1].end_time = clock
        /\ user_tracking_cache[u].session_start = Some(clock)
        /\ ~user_tracking_cache[v].playing

\* C20: every playing cache entry holds a session_start and a session_id, both
\* not None; no END or SWITCH takes its "No session_start found" branch; and
\* no check reads session_start from a cached entry without that key.
C20_PlayingHasSession ==
    /\ [](/\ \A u \in DOMAIN user_tracking_cache :
               user_tracking_cache[u].playing
               => /\ {"session_start", "session_id"}
                         \subseteq DOMAIN user_tracking_cache[u]
                  /\ user_tracking_cache[u].session_start # None
                  /\ user_tracking_cache[u].session_id # None
          /\ \A u \in USERS_TO_TRACK :
               branch[u] \notin {"END_NO_START", "SWITCH_NO_START"})
    /\ [][\A u \in USERS_TO_TRACK :
            (Tracks(u) /\ ReadsSessionStart(Branch(Cached(u), Cur(u))))
            => /\ "session_start" \in DOMAIN Cached(u)
               /\ Cached(u).session_start # None
               /\ pc'[u] # "raised"]_vars

\* An IDLE tick left an entry without the two keys in the cache, next to a
\* session that a CONTINUE keeps open.
C20_Witness ==
    \E u, v \in DOMAIN user_tracking_cache :
        /\ pc[u] = "done" /\ branch[u] = "IDLE"
        /\ DOMAIN user_tracking_cache[u] \cap {"session_start", "session_id"} = {}
        /\ pc[v] = "done" /\ branch[v] = "CONTINUE"
        /\ user_tracking_cache[v].playing
        /\ user_tracking_cache[v].session_start = Some(0)
        /\ clock = LOGGING_INTERVAL_SECONDS

\* C21: the clock never goes back; on every record start_time <= end_time; of
\* two records of one user, the one appended later starts no earlier than the
\* other ends; and a SWITCH that appends a record caches a session whose
\* session_start is the end_time of that record.
C21_SessionsDoNotOverlap ==
    /\ [](/\ \A i \in 1..Len(db_store) :
               db_store[i].start_time <= db_store[i].end_time
          /\ \A i, j \in 1..Len(db_store) :
               (i < j /\ db_store[i].user_id = db_store[j].user_id)
               => db_store[i].end_time <= db_store[j].start_time)
    /\ [][/\ clock' >= clock
          /\ \A u \in USERS_TO_TRACK :
                (Finishes(u) /\ branch'[u] = "SWITCH" /\ Appends)
                => /\ Appended.user_id = u
                   /\ NewEntry(u).session_start = Some(Appended.end_time)
       ]_vars

\* A second SWITCH of a user closed the session its first SWITCH had opened,
\* and opened one at the record's end_time, a second before its sheet append
\* returned.
C21_Witness ==
    \E u \in USERS_TO_TRACK :
        /\ pc[u] = "done"
        /\ branch[u] = "SWITCH"
        /\ \E i, j \in 1..Len(db_store) :
              /\ i < j
              /\ db_store[i].user_id = u
              /\ db_store[j].user_id = u
              /\ db_store[j].start_time = db_store[i].end_time
              /\ db_store[j].end_time < clock
              /\ user_tracking_cache[u].session_start = Some(db_store[j].end_time)

=============================================================================
